---- MODULE Spec2Model ----
(***************************************************************************)
(* The content-strategy stage of the outline generator:                    *)
(*   src/src/agents/content_strategist.py  (generate_content_strategy,     *)
(*       _build_strategy_context, _generate_outline_with_llm,              *)
(*       _parse_outline_manually)                                          *)
(*   src/src/models/content_models.py      (ContentBrief and its parts)    *)
(*                                                                         *)
(* Python values are modelled as follows.  A dict is a TLA+ function whose *)
(* DOMAIN is the set of keys present.  A str is a TLA+ string, except the  *)
(* primary keyword, whose characters matter to str.title(): it is a        *)
(* sequence of one-character strings, rendered by Str.  A list is a        *)
(* sequence.  A value of more than one Python type carries a "kind" or     *)
(* "shape" tag.                                                            *)
(***************************************************************************)
EXTENDS Integers, Sequences, FiniteSets, TLC

VARIABLES
    pc,         \* position of generate_content_strategy
    state,      \* the OutlineState dict the run reads and mutates
    state0,     \* history: the state as the caller passed it in
    context,    \* the string _build_strategy_context returned
    resp1,      \* what the constrained request (line 124) met
    resp2,      \* what the unconstrained request (line 135) met
    outline,    \* the local `outline` of generate_content_strategy (line 22)
    requests,   \* the inference requests issued so far, in order
    raised      \* the exception that left generate_content_strategy, if any

vars == <<pc, state, state0, context, resp1, resp2, outline, requests, raised>>

(***************************************************************************)
(* Bounds of the model.                                                    *)
(***************************************************************************)
MaxTopics == 11   \* longest competitor common_topics list
MaxPaa == 6       \* longest people_also_ask list of a search result
MaxGaps == 4      \* longest content_gaps list
MaxPrior == 1     \* entries already in state['errors'] before the run

(***************************************************************************)
(* Python built-ins.                                                       *)
(***************************************************************************)
Min(a, b) == IF a <= b THEN a ELSE b

\* d.get(k, default)
Get(d, k, default) == IF k \in DOMAIN d THEN d[k] ELSE default

\* d[k] = v
Put(d, k, v) == [x \in DOMAIN d \cup {k} |-> IF x = k THEN v ELSE d[x]]

\* a slice that lets one entry more through
TakeOneMore(seq, n) == SubSeq(seq, 1, Min(n + 1, Len(seq)))

\* seq[:n]
Take(seq, n) == SubSeq(seq, 1, Min(n, Len(seq)))

\* sep.join(seq)
RECURSIVE Join(_, _)
Join(sep, seq) ==
    IF Len(seq) = 0 THEN ""
    ELSE IF Len(seq) = 1 THEN seq[1]
    ELSE seq[1] \o sep \o Join(sep, Tail(seq))

\* a str held as a sequence of characters, as the str it is
RECURSIVE Str(_)
Str(cs) == IF Len(cs) = 0 THEN "" ELSE cs[1] \o Str(Tail(cs))

Lowers == <<"a", "e", "i", "o", "p", "s", "t">>
Uppers == <<"A", "E", "I", "O", "P", "S", "T">>
IsLower(c) == \E i \in DOMAIN Lowers : Lowers[i] = c
IsUpper(c) == \E i \in DOMAIN Uppers : Uppers[i] = c
ToUpper(c) == IF IsLower(c) THEN Uppers[CHOOSE i \in DOMAIN Lowers : Lowers[i] = c] ELSE c
ToLower(c) == IF IsUpper(c) THEN Lowers[CHOOSE i \in DOMAIN Uppers : Uppers[i] = c] ELSE c

\* str.title(): a cased character is upper-cased when it follows an uncased
\* one (or starts the string) and lower-cased when it follows a cased one.
Title(cs) ==
    [i \in 1..Len(cs) |->
        LET prevCased == i > 1 /\ (IsLower(cs[i - 1]) \/ IsUpper(cs[i - 1]))
        IN  IF prevCased THEN ToLower(cs[i]) ELSE ToUpper(cs[i])]

\* bool(x) of a list, str or dict, and of None
TruthySeq(s) == Len(s) > 0

(***************************************************************************)
(* _build_strategy_context (content_strategist.py 33-80).                  *)
(* keywords is [shape |-> "dict", items |-> dict] or a KeywordData         *)
(* [shape |-> "obj", primary, secondary, lsi, longtail].                   *)
(***************************************************************************)
IsDict(keywords) == keywords.shape = "dict"

\* lines 39-49
primary_keyword(keywords) ==
    IF IsDict(keywords) THEN Get(keywords.items, "primary", <<>>) ELSE keywords.primary

secondary_keywords(keywords) ==
    IF IsDict(keywords) THEN Get(keywords.items, "secondary", <<>>) ELSE keywords.secondary

lsi_keywords(keywords) ==
    IF IsDict(keywords) THEN Get(keywords.items, "lsi", <<>>) ELSE keywords.lsi

\* longtail_keywords = None on both branches (lines 43 and 49): falsy
longtail_keywords(keywords) == <<>>

\* lines 52-58
KeywordLines(keywords) ==
    <<"PRIMARY KEYWORD: " \o Str(primary_keyword(keywords))>>
    \o (IF TruthySeq(secondary_keywords(keywords))
        THEN <<"SECONDARY KEYWORDS: " \o Join(", ", secondary_keywords(keywords))>>
        ELSE <<>>)
    \o (IF TruthySeq(lsi_keywords(keywords))
        THEN <<"LSI KEYWORDS: " \o Join(", ", lsi_keywords(keywords))>>
        ELSE <<>>)
    \o (IF TruthySeq(longtail_keywords(keywords))
        THEN <<"LONGTAIL KEYWORDS: " \o Join(", ", longtail_keywords(keywords))>>
        ELSE <<>>)

\* lines 61-63
StrategyLines(content_strategy) ==
    << "CONTENT TYPE: " \o Get(content_strategy, "content_type", "guide"),
       "SEARCH INTENT: " \o Get(content_strategy, "search_intent", "informational"),
       "TARGET WORD COUNT: " \o ToString(Get(content_strategy, "estimated_word_count", 2500)) >>

\* lines 66-67
CompetitorLines(competitor_analysis) ==
    IF TruthySeq(Get(competitor_analysis, "common_topics", <<>>))
    THEN <<"COMPETITOR TOPICS: " \o Join(", ", Take(competitor_analysis["common_topics"], 10))>>
    ELSE <<>>

\* lines 70-73
paa_questions(serper_results) ==
    LET paa == Get(serper_results[1], "people_also_ask", <<>>)
    IN  Take([i \in 1..Len(paa) |-> Get(paa[i], "question", "")], 5)

\* the same without the test of line 72
PaaLinesUnguarded(serper_results) ==
    IF TruthySeq(serper_results)
    THEN <<"PEOPLE ALSO ASK: " \o Join("; ", paa_questions(serper_results))>>
    ELSE <<>>

PaaLines(serper_results) ==
    IF TruthySeq(serper_results) /\ TruthySeq(paa_questions(serper_results))
    THEN <<"PEOPLE ALSO ASK: " \o Join("; ", paa_questions(serper_results))>>
    ELSE <<>>

\* lines 76-78.  gap.get exists on a dict only: a ContentGap model instance
\* (content_models.py 28-31) makes line 77 raise AttributeError.
GapsRaise(content_gaps) ==
    /\ TruthySeq(content_gaps)
    /\ \E i \in 1..Min(3, Len(content_gaps)) : content_gaps[i].shape = "obj"

gap_topics(content_gaps) ==
    LET first == Take(content_gaps, 3)
    IN  [i \in 1..Len(first) |-> Get(first[i].items, "topic", "")]

GapLines(content_gaps) ==
    IF TruthySeq(content_gaps)
    THEN <<"CONTENT GAPS TO ADDRESS: " \o Join("; ", gap_topics(content_gaps))>>
    ELSE <<>>

context_parts(keywords, content_strategy, competitor_analysis, serper_results, content_gaps) ==
    KeywordLines(keywords) \o StrategyLines(content_strategy)
    \o CompetitorLines(competitor_analysis) \o PaaLines(serper_results)
    \o GapLines(content_gaps)

\* The call's outcome: the returned string, or the exception it raises.
build_strategy_context(keywords, content_strategy, competitor_analysis, serper_results, content_gaps) ==
    IF GapsRaise(content_gaps)
    THEN [kind |-> "raise", exc |-> "AttributeError"]
    ELSE [kind |-> "return",
          value |-> Join("\n", context_parts(keywords, content_strategy,
                                             competitor_analysis, serper_results, content_gaps))]

(***************************************************************************)
(* The Schema Layer (content_models.py 9-66).                              *)
(***************************************************************************)
\* class ContentType (lines 9-14) and class SearchIntent (lines 16-20)
ContentType == {"ultimate_guide", "how_to", "comparison", "listicle", "review"}
SearchIntent == {"informational", "commercial", "transactional", "navigational"}

\* class OutlineSection (lines 33-40): five required fields, the word count
\* bounded by Field(ge=100, le=2000)
OutlineSectionValid(s) ==
    /\ {"section_id", "section_title", "short_description", "target_keywords",
        "suggested_word_count"} \subseteq DOMAIN s
    /\ s["suggested_word_count"] >= 100
    /\ s["suggested_word_count"] <= 2000

\* class FAQ (lines 42-45)
FAQValid(f) == {"question", "answer_brief"} \subseteq DOMAIN f

\* class ContentGap (lines 28-31)
ContentGapValid(g) ==
    /\ {"topic", "description", "opportunity_score"} \subseteq DOMAIN g
    /\ g["opportunity_score"] >= 1
    /\ g["opportunity_score"] <= 10

\* class ContentBrief, its declared fields (lines 48-57): nine required fields,
\* the two enumerations, every nested model valid.  `sections` is
\* List[OutlineSection] with no length constraint.
ContentBriefFieldsValid(obj) ==
    /\ {"title", "meta_description", "content_type", "search_intent", "target_audience",
        "total_word_count", "sections", "faqs", "content_gaps_addressed"} \subseteq DOMAIN obj
    /\ obj["content_type"] \in ContentType
    /\ obj["search_intent"] \in SearchIntent
    /\ \A i \in 1..Len(obj["sections"]) : OutlineSectionValid(obj["sections"][i])
    /\ \A i \in 1..Len(obj["faqs"]) : FAQValid(obj["faqs"][i])
    /\ \A i \in 1..Len(obj["content_gaps_addressed"]) :
           ContentGapValid(obj["content_gaps_addressed"][i])

\* title_must_contain_primary_keyword (lines 59-66).  The validator tests
\* `'target_keywords' in values`.  ContentBrief has no such field, so where
\* `values` supports the membership test the test is false and the title is
\* returned unchanged; where `values` is a validation-info object without a
\* membership test the line raises TypeError, which is no validation error and
\* leaves the validation as it is.  Which of the two happens is decided by the
\* installed pydantic, not by this repository: both are outcomes.
title_must_contain_primary_keyword == {"return", "TypeError"}

\* Filling the declared defaults (lines 39-40, 45, 57) and dropping undeclared
\* keys: what a validated model holds and what .dict() gives back (line 25 of
\* content_strategist.py).
SectionDict(s) ==
    [k \in {"section_id", "section_title", "short_description", "target_keywords",
            "suggested_word_count", "subsections", "research_notes"} |->
        IF k \in DOMAIN s THEN s[k] ELSE <<>>]

FAQDict(f) ==
    [k \in {"question", "answer_brief", "target_keywords"} |->
        IF k \in DOMAIN f THEN f[k] ELSE <<>>]

BriefDict(obj) ==
    [k \in {"title", "meta_description", "content_type", "search_intent", "target_audience",
            "total_word_count", "sections", "faqs", "content_gaps_addressed",
            "internal_link_opportunities"} |->
        IF k = "sections" THEN [i \in 1..Len(obj["sections"]) |-> SectionDict(obj["sections"][i])]
        ELSE IF k = "faqs" THEN [i \in 1..Len(obj["faqs"]) |-> FAQDict(obj["faqs"][i])]
        ELSE IF k \in DOMAIN obj THEN obj[k]
        ELSE <<>>]

\* ContentBrief validation of a decoded object under one outcome of the title
\* validator.  The title is the first field: its validator runs when a title
\* is there, before the other fields are looked at.
ModelValidate(obj, titleOutcome) ==
    IF "title" \in DOMAIN obj /\ titleOutcome = "TypeError"
    THEN [kind |-> "raise", exc |-> "TypeError"]
    ELSE IF ContentBriefFieldsValid(obj)
    THEN [kind |-> "return", value |-> [kind |-> "ContentBrief", v |-> BriefDict(obj)]]
    ELSE [kind |-> "raise", exc |-> "ValidationError"]

(***************************************************************************)
(* Response text.  A text is a sequence of segments: prose without braces  *)
(* [kind |-> "prose"], a stray brace [kind |-> "open"] or                  *)
(* [kind |-> "close"], or the text of one JSON object                      *)
(* [kind |-> "obj", v |-> the dict it decodes to].                         *)
(***************************************************************************)
HasOpen(seg) == seg.kind \in {"obj", "open"}
HasClose(seg) == seg.kind \in {"obj", "close"}

\* re.search(r'\{.*\}', raw_content, re.DOTALL) (line 153): from the first "{"
\* to the last "}" after it; <<>> when there is no match
json_match(text) ==
    LET opens == {i \in 1..Len(text) : HasOpen(text[i])}
    IN  IF opens = {} THEN <<>>
        ELSE LET first == CHOOSE i \in opens : \A j \in opens : i <= j
                 closes == {j \in first..Len(text) : HasClose(text[j])}
             IN  IF closes = {} THEN <<>>
                 ELSE LET last == CHOOSE j \in closes : \A k \in closes : k <= j
                      IN  SubSeq(text, first, last)

\* json.loads of a text (line 156): it decodes exactly when the text is one
\* JSON object and nothing else
json_loads(text) ==
    IF Len(text) = 1 /\ text[1].kind = "obj"
    THEN [kind |-> "return", value |-> text[1].v]
    ELSE [kind |-> "raise", exc |-> "JSONDecodeError"]

\* lines 162-183, evaluated for a KeywordData
MinimalBrief(keywords, content_strategy) ==
    [title |-> "Complete Guide to " \o Str(Title(keywords.primary)),
     meta_description |-> "Discover everything about " \o Str(keywords.primary)
                          \o ". Expert insights and recommendations.",
     content_type |-> Get(content_strategy, "content_type", "ultimate_guide"),
     search_intent |-> Get(content_strategy, "search_intent", "informational"),
     target_audience |-> Get(content_strategy, "target_audience", "general audience"),
     total_word_count |-> Get(content_strategy, "estimated_word_count", 2500),
     sections |-> << [section_id |-> "introduction",
                      section_title |-> "What is " \o Str(Title(keywords.primary)) \o "?",
                      short_description |-> "Introduction and overview",
                      target_keywords |-> <<Str(keywords.primary)>>,
                      suggested_word_count |-> 300,
                      subsections |-> <<"Overview", "Key Benefits">>,
                      research_notes |-> <<"Define the topic clearly">>] >>,
     faqs |-> <<>>,
     content_gaps_addressed |-> <<>>,
     internal_link_opportunities |-> <<>>]

\* _parse_outline_manually (lines 146-183).  A decoded object is returned as it
\* is; otherwise the minimal outline is built, which reads keywords.primary as
\* an attribute: a dict has none and line 163 raises AttributeError.
parse_outline_manually(raw_content, keywords, content_strategy) ==
    IF TruthySeq(json_match(raw_content)) /\ json_loads(json_match(raw_content)).kind = "return"
    THEN [kind |-> "return",
          value |-> [kind |-> "dict", v |-> json_loads(json_match(raw_content)).value]]
    ELSE IF IsDict(keywords)
    THEN [kind |-> "raise", exc |-> "AttributeError"]
    ELSE [kind |-> "return",
          value |-> [kind |-> "dict", v |-> MinimalBrief(keywords, content_strategy)]]

\* The parser of the constrained chain (lines 86, 122-127) decodes the text
\* before validating it.  The decoding is the library's: it takes the whole
\* text as JSON, or the brace-delimited part of it; both are outcomes.
ParserDecodes(text) ==
    {json_loads(text)}
    \cup (IF TruthySeq(json_match(text)) THEN {json_loads(json_match(text))} ELSE {})

None == [kind |-> "None"]

\* bool(outline) at line 24
Truthy(o) ==
    CASE o.kind = "None" -> FALSE
      [] o.kind = "dict" -> DOMAIN o.v # {}
      [] o.kind = "ContentBrief" -> TRUE

(***************************************************************************)
(* The inputs a run may find in the pipeline state, and the responses the  *)
(* inference service may give.                                             *)
(***************************************************************************)
EmptyDict == [k \in {} |-> TRUE]

PrimaryText == <<"s", "e", "O", " ", "t", "i", "p", "s">>

\* the dicts with, for each key, no entry or one of the values given
KeywordDicts(P, S, L, T) ==
    {[shape |-> "dict", items |-> p @@ s @@ l @@ t] :
        p \in {EmptyDict} \cup {[primary |-> x] : x \in P},
        s \in {EmptyDict} \cup {[secondary |-> x] : x \in S},
        l \in {EmptyDict} \cup {[lsi |-> x] : x \in L},
        t \in {EmptyDict} \cup {[longtail |-> x] : x \in T}}

KeywordObjs(P, S, L, T) ==
    {[shape |-> "obj", primary |-> p, secondary |-> s, lsi |-> l, longtail |-> t] :
        p \in P, s \in S, l \in L, t \in T}

Strategies ==
    {EmptyDict,
     [content_type |-> "guide"],
     [content_type |-> "how_to", search_intent |-> "commercial",
      estimated_word_count |-> 1200, target_audience |-> "developers"]}

\* the lengths tried for a list of at most n entries
Lengths(n) == {k \in {0, 1, n - 1, n} : k >= 0}

Topic(i) == "topic" \o ToString(i)
Topics(n) == [i \in 1..n |-> Topic(i)]

Question(e, i) == [question |-> "q" \o ToString(e) \o "." \o ToString(i)]
Questions(e, n) == [i \in 1..n |-> Question(e, i)]

GapDict(i) ==
    [shape |-> "dict",
     items |-> [topic |-> "gap" \o ToString(i), description |-> "d", opportunity_score |-> 5]]
GapObj(i) ==
    [shape |-> "obj", topic |-> "gap" \o ToString(i), description |-> "d", opportunity_score |-> 5]
GapDicts(n) == [i \in 1..n |-> GapDict(i)]

LLMSection(wc) ==
    [section_id |-> "basics", section_title |-> "Seo Tips That Work",
     short_description |-> "The essentials", target_keywords |-> <<"seo tips">>,
     suggested_word_count |-> wc]

LLMBrief(ct, si, wcs, score) ==
    [title |-> "Seo Tips: A Field Manual", meta_description |-> "Practical seo tips.",
     content_type |-> ct, search_intent |-> si, target_audience |-> "marketers",
     total_word_count |-> 1800,
     sections |-> [i \in 1..Len(wcs) |-> LLMSection(wcs[i])],
     faqs |-> <<[question |-> "Why?", answer_brief |-> "Because."]>>,
     content_gaps_addressed |->
         <<[topic |-> "audits", description |-> "d", opportunity_score |-> score]>>]

GoodBrief == LLMBrief("how_to", "informational", <<300>>, 7)

Untitled == [k \in DOMAIN GoodBrief \ {"title"} |-> GoodBrief[k]]

Objects ==
    {LLMBrief("how_to", "informational", w, 7) : w \in {<<300>>, <<>>, <<99>>, <<2001>>, <<100, 2000>>}}
    \cup {LLMBrief("guide", "informational", <<300>>, 7),
          LLMBrief("how_to", "bogus", <<300>>, 7),
          LLMBrief("how_to", "informational", <<300>>, 11),
          Untitled, EmptyDict, [note |-> "no outline"]}

Prose == [kind |-> "prose"]
Open == [kind |-> "open"]
Close == [kind |-> "close"]
Obj(o) == [kind |-> "obj", v |-> o]

Texts ==
    {<<Obj(o)>> : o \in Objects}
    \cup {<<Prose>>,
          <<Prose, Obj(GoodBrief), Prose>>,
          <<Obj(GoodBrief), Prose, Obj([note |-> "no outline"])>>,
          <<Open, Prose>>,
          <<Close, Prose, Obj(GoodBrief)>>}

\* a request meets a transport failure or a response text
Responses == {[kind |-> "failure"]} \cup {[kind |-> "text", text |-> t] : t \in Texts}

NoResponse == [kind |-> "none"]
Unset == [kind |-> "unset"]

\* the pipeline state before the run: the required slots, and each optional
\* slot absent or holding one of the values given
States(K, CS, CA, SR, CG, E, O) ==
    {[keywords |-> k, errors |-> e, confidence_scores |-> [keyword_research |-> 8]]
        @@ cs @@ ca @@ sr @@ cg @@ o :
        k \in K, e \in E,
        cs \in {EmptyDict} \cup {[content_strategy |-> x] : x \in CS},
        ca \in {EmptyDict} \cup {[competitor_analysis |-> x] : x \in CA},
        sr \in {EmptyDict} \cup {[serper_results |-> x] : x \in SR},
        cg \in {EmptyDict} \cup {[content_gaps |-> x] : x \in CG},
        o \in {EmptyDict} \cup {[outline |-> x] : x \in O}}

PriorErrors == {[i \in 1..n |-> "upstream error"] : n \in 0..MaxPrior}

Locals ==
    /\ pc = "START"
    /\ state0 = state
    /\ context = ""
    /\ resp1 = NoResponse
    /\ resp2 = NoResponse
    /\ outline = Unset
    /\ requests = <<>>
    /\ raised = "none"

(***************************************************************************)
(* generate_content_strategy (content_strategist.py 8-31), step by step.   *)
(***************************************************************************)
HighConfidence == 9   \* 0.9, in tenths
LowConfidence == 3    \* 0.3, in tenths

\* lines 12-16
Keywords == state["keywords"]
ContentStrategy == Get(state, "content_strategy", EmptyDict)
CompetitorAnalysis == Get(state, "competitor_analysis", EmptyDict)
SerperResults == Get(state, "serper_results", <<>>)
ContentGaps == Get(state, "content_gaps", <<>>)

\* lines 12-19: read the state and build the context; an exception raised
\* there leaves generate_content_strategy, which catches nothing
BuildContext ==
    /\ pc = "START"
    /\ LET r == build_strategy_context(Keywords, ContentStrategy, CompetitorAnalysis,
                                       SerperResults, ContentGaps)
       IN  IF r.kind = "raise"
           THEN pc' = "RAISED" /\ raised' = r.exc /\ context' = context
           ELSE pc' = "CONTEXT_BUILT" /\ context' = r.value /\ raised' = raised
    /\ UNCHANGED <<state, state0, resp1, resp2, outline, requests>>

\* chain.invoke of `prompt | llm | parser` (lines 122-127) on a response
ChainOutcomes(r) ==
    IF r.kind = "failure"
    THEN {[kind |-> "raise", exc |-> "TransportFailure"]}
    ELSE {IF d.kind = "raise" THEN d ELSE ModelValidate(d.value, t) :
             d \in ParserDecodes(r.text), t \in title_must_contain_primary_keyword}

\* the same, repeating the constrained request when it fails
ConstrainedRequestRetrying ==
    /\ pc = "CONTEXT_BUILT"
    /\ \E r \in Responses :
          /\ resp1' = r
          /\ \E res \in ChainOutcomes(r) :
                IF res.kind = "return"
                THEN outline' = res.value /\ pc' = "GENERATED"
                ELSE outline' = outline /\ pc' = "CONTEXT_BUILT"
    /\ requests' = Append(requests, "constrained")
    /\ UNCHANGED <<state, state0, context, resp2, raised>>

\* lines 121-131: the constrained request; its result is returned (line 129)
\* or its exception is caught (line 131)
ConstrainedRequest ==
    /\ pc = "CONTEXT_BUILT"
    /\ \E r \in Responses :
          /\ resp1' = r
          /\ \E res \in ChainOutcomes(r) :
                IF res.kind = "return"
                THEN outline' = res.value /\ pc' = "GENERATED"
                ELSE outline' = outline /\ pc' = "FALLBACK"
    /\ requests' = Append(requests, "constrained")
    /\ UNCHANGED <<state, state0, context, resp2, raised>>

\* lines 133-144 on a response: the manual parse of its text, None when the
\* request or the parse raises
fallback_result(r, keywords, content_strategy) ==
    IF r.kind = "failure" THEN None
    ELSE LET p == parse_outline_manually(r.text, keywords, content_strategy)
         IN  IF p.kind = "raise" THEN None ELSE p.value

\* the same, parsing the first response's text when there is one instead of
\* issuing the second request
UnconstrainedRequestReusingText ==
    /\ pc = "FALLBACK"
    /\ IF resp1.kind = "text"
       THEN /\ outline' = fallback_result(resp1, Keywords, ContentStrategy)
            /\ UNCHANGED <<resp2, requests>>
       ELSE /\ \E r \in Responses :
                  /\ resp2' = r
                  /\ outline' = fallback_result(r, Keywords, ContentStrategy)
            /\ requests' = Append(requests, "unconstrained")
    /\ pc' = "RECOVERED"
    /\ UNCHANGED <<state, state0, context, resp1, raised>>

\* lines 133-144: the unconstrained request
UnconstrainedRequest ==
    /\ pc = "FALLBACK"
    /\ \E r \in Responses :
          /\ resp2' = r
          /\ outline' = fallback_result(r, Keywords, ContentStrategy)
    /\ requests' = Append(requests, "unconstrained")
    /\ pc' = "RECOVERED"
    /\ UNCHANGED <<state, state0, context, resp1, raised>>

\* outline.dict() if hasattr(outline, 'dict') else outline (line 25)
StoredOutline(o) == o.v

\* the same with line 28 assigning a new list instead of appending
store_result_replaces_errors(st, o) ==
    IF Truthy(o)
    THEN Put(Put(st, "outline", StoredOutline(o)),
             "confidence_scores",
             Put(st["confidence_scores"], "content_strategy", HighConfidence))
    ELSE Put(Put(st, "errors", <<"Failed to generate content outline">>),
             "confidence_scores",
             Put(st["confidence_scores"], "content_strategy", LowConfidence))

\* the same with the append of line 28 moved out of the else branch
store_result_always_logs(st, o) ==
    IF Truthy(o)
    THEN Put(Put(Put(st, "outline", StoredOutline(o)),
                 "errors", Append(st["errors"], "Failed to generate content outline")),
             "confidence_scores",
             Put(st["confidence_scores"], "content_strategy", HighConfidence))
    ELSE Put(Put(st, "errors", Append(st["errors"], "Failed to generate content outline")),
             "confidence_scores",
             Put(st["confidence_scores"], "content_strategy", LowConfidence))

\* the same with the failed result assigned to the outline slot as well
store_result_writes_none(st, o) ==
    IF Truthy(o)
    THEN Put(Put(st, "outline", StoredOutline(o)),
             "confidence_scores",
             Put(st["confidence_scores"], "content_strategy", HighConfidence))
    ELSE Put(Put(Put(st, "outline", None),
                 "errors", Append(st["errors"], "Failed to generate content outline")),
             "confidence_scores",
             Put(st["confidence_scores"], "content_strategy", LowConfidence))

\* lines 24-29: the state after the writes, given the generated outline
store_result(st, o) ==
    IF Truthy(o)
    THEN Put(Put(st, "outline", StoredOutline(o)),
             "confidence_scores",
             Put(st["confidence_scores"], "content_strategy", HighConfidence))
    ELSE Put(Put(st, "errors", Append(st["errors"], "Failed to generate content outline")),
             "confidence_scores",
             Put(st["confidence_scores"], "content_strategy", LowConfidence))

\* lines 24-31
StoreResult ==
    /\ pc \in {"GENERATED", "RECOVERED"}
    /\ state' = store_result(state, outline)
    /\ pc' = "DONE"
    /\ UNCHANGED <<state0, context, resp1, resp2, outline, requests, raised>>

(***************************************************************************)
(* Spec: whole runs of generate_content_strategy.                          *)
(***************************************************************************)
RunKeywords ==
    KeywordDicts({<<>>, PrimaryText}, {<<"s1", "s2">>}, {}, {})
    \cup KeywordObjs({<<>>, PrimaryText}, {<<>>, <<"s1", "s2">>}, {<<>>}, {<<>>})

Init ==
    /\ state \in States(RunKeywords, Strategies, {}, {},
                        {<<GapDict(1)>>, <<GapObj(1)>>}, PriorErrors, {GoodBrief})
    /\ Locals

Next == BuildContext \/ ConstrainedRequest \/ UnconstrainedRequest \/ StoreResult

Spec == Init /\ [][Next]_vars

(***************************************************************************)
(* SpecBuild: _build_strategy_context alone, over a wider range of inputs. *)
(***************************************************************************)
BuildKeywords ==
    KeywordDicts({PrimaryText}, {<<>>, <<"s1", "s2">>}, {<<"l1">>}, {<<"lt1", "lt2">>})
    \cup KeywordObjs({PrimaryText}, {<<>>, <<"s1", "s2">>}, {<<>>, <<"l1">>},
                     {<<>>, <<"lt1", "lt2">>})

BuildCompetitors ==
    {EmptyDict} \cup {[common_topics |-> Topics(n)] : n \in Lengths(MaxTopics)}

BuildSerper ==
    {<<>>, <<EmptyDict>>, <<EmptyDict, [people_also_ask |-> Questions(2, 1)]>>}
    \cup {<<[people_also_ask |-> Questions(1, n)]>> : n \in Lengths(MaxPaa)}
    \cup {<<[people_also_ask |-> Questions(1, n)], [people_also_ask |-> Questions(2, 1)]>> :
             n \in Lengths(MaxPaa)}
    \cup {<<[people_also_ask |-> <<EmptyDict, Question(1, 2)>>]>>}

BuildGaps ==
    {GapDicts(n) : n \in Lengths(MaxGaps)}
    \cup {<<GapObj(1)>>, <<[shape |-> "dict", items |-> EmptyDict]>>,
          GapDicts(3) \o <<GapObj(4)>>}

InitBuild ==
    /\ state \in States(BuildKeywords, Strategies, BuildCompetitors, BuildSerper,
                        BuildGaps, {<<>>}, {})
    /\ Locals

NextBuild == BuildContext

SpecBuild == InitBuild /\ [][NextBuild]_vars

(***************************************************************************)
(* Properties.                                                             *)
(***************************************************************************)
Returned == pc = "DONE"
Confidence == Get(state["confidence_scores"], "content_strategy", -1)
PrimaryLacking == primary_keyword(state0["keywords"]) = <<>>
FirstParseFailed == resp1.kind = "text" /\ Len(requests) = 2
BothUnreachable == resp1.kind = "failure" /\ resp2.kind = "failure"

\* the keys of a brief
BriefShaped(o) ==
    {"title", "meta_description", "content_type", "search_intent", "target_audience",
     "total_word_count", "sections", "faqs", "content_gaps_addressed"} \subseteq DOMAIN o

\* the invariants of a ContentBrief as the data model states them
SatisfiesBriefInvariants(o) ==
    /\ ContentBriefFieldsValid(o)
    /\ Len(o["sections"]) > 0

\* the minimal synthetic brief for the primary keyword of a KeywordSet of
\* either shape
MinimalBriefFor(keywords, content_strategy) ==
    MinimalBrief([primary |-> primary_keyword(keywords)], content_strategy)

\* the KeywordSet of the other shape with the same contents
Twin(keywords) ==
    IF IsDict(keywords)
    THEN [shape |-> "obj",
          primary |-> Get(keywords.items, "primary", <<>>),
          secondary |-> Get(keywords.items, "secondary", <<>>),
          lsi |-> Get(keywords.items, "lsi", <<>>),
          longtail |-> Get(keywords.items, "longtail", <<>>)]
    ELSE [shape |-> "dict",
          items |-> [primary |-> keywords.primary, secondary |-> keywords.secondary,
                     lsi |-> keywords.lsi, longtail |-> keywords.longtail]]

\* C1: for a KeywordSet with a primary keyword and whatever the inference
\* service does, once the run has returned state['outline'] is there and is
\* brief-shaped.
C1_OutlineAlwaysPopulated ==
    (Returned /\ ~PrimaryLacking) =>
        ("outline" \in DOMAIN state /\ BriefShaped(state["outline"]))

\* C2: for a KeywordSet with a primary keyword, when the first call returned text that failed the constrained parse,
\* the run ends with confidence 0.3 and exactly one more entry in errors,
\* whatever the fallback produced.
C2_ParseFailureLowersConfidence ==
    (Returned /\ ~PrimaryLacking /\ FirstParseFailed) =>
        /\ Confidence = LowConfidence
        /\ Len(state["errors"]) = Len(state0["errors"]) + 1

\* C3: when both requests meet a transport failure and errors started empty,
\* the run ends with the minimal synthetic brief as the outline, one entry in
\* errors and confidence 0.3.
C3_UnreachableGivesMinimalBrief ==
    (Returned /\ ~PrimaryLacking /\ BothUnreachable /\ state0["errors"] = <<>>) =>
        /\ "outline" \in DOMAIN state
        /\ state["outline"] = MinimalBriefFor(Keywords, ContentStrategy)
        /\ Len(state["errors"]) = 1
        /\ Confidence = LowConfidence

\* C4: for a KeywordSet with a primary keyword, no exception leaves the run;
\* an error raised while building the minimal brief is recorded in errors and
\* answered with the minimal brief as the outline.
C4_NeverRaisesPastBoundary ==
    ~PrimaryLacking =>
    /\ pc # "RAISED"
    /\ (Returned /\ resp2.kind = "text"
          /\ parse_outline_manually(resp2.text, Keywords, ContentStrategy).kind = "raise") =>
            /\ Len(state["errors"]) = Len(state0["errors"]) + 1
            /\ "outline" \in DOMAIN state
            /\ state["outline"] = MinimalBriefFor(Keywords, ContentStrategy)

\* C5: for a KeywordSet with a primary keyword, every value a run places in state['outline'] satisfies the
\* ContentBrief invariants: sections non-empty, word counts in [100,2000],
\* content_type and search_intent in their enumerations.
C5_StoredOutlineIsValid ==
    (Returned /\ ~PrimaryLacking /\ Truthy(outline)) =>
        SatisfiesBriefInvariants(state["outline"])

C7_MissingPrimaryFailsFast ==
    PrimaryLacking =>
        /\ pc \in {"START", "RAISED"}
        /\ pc = "RAISED" => raised = "InvalidInput"
        /\ context = ""
        /\ requests = <<>>
        /\ state = state0

\* C8: the run with the KeywordSet of the other shape and the same contents,
\* meeting the same responses, builds the same context and ends in the same
\* state (outline, errors, confidence).
C8_ShapeIndependent ==
    ~PrimaryLacking =>
    /\ (pc \notin {"START", "RAISED"}) =>
          build_strategy_context(Twin(Keywords), ContentStrategy, CompetitorAnalysis,
                                 SerperResults, ContentGaps)
              = [kind |-> "return", value |-> context]
    /\ (Returned /\ Len(requests) = 2) =>
          store_result(state0, fallback_result(resp2, Twin(Keywords), ContentStrategy)) = state

\* the lines C9 describes: the fixed order, each optional line there exactly
\* when its input is non-empty, the longtail line for a typed object's
\* longtail list
ClaimedParts ==
    <<"PRIMARY KEYWORD: " \o Str(primary_keyword(Keywords))>>
    \o (IF secondary_keywords(Keywords) # <<>>
        THEN <<"SECONDARY KEYWORDS: " \o Join(", ", secondary_keywords(Keywords))>> ELSE <<>>)
    \o (IF lsi_keywords(Keywords) # <<>>
        THEN <<"LSI KEYWORDS: " \o Join(", ", lsi_keywords(Keywords))>> ELSE <<>>)
    \o (IF ~IsDict(Keywords) /\ Keywords.longtail # <<>>
        THEN <<"LONGTAIL KEYWORDS: " \o Join(", ", Keywords.longtail)>> ELSE <<>>)
    \o StrategyLines(ContentStrategy)
    \o CompetitorLines(CompetitorAnalysis)
    \o PaaLines(SerperResults)
    \o GapLines(ContentGaps)

\* C9: the context is the lines in the fixed order primary, secondary, LSI,
\* longtail, content type, search intent, word count, competitor topics,
\* people-also-ask, content gaps, an optional line present exactly when its
\* input is non-empty.
C9_ContextLinesInOrder ==
    (pc = "CONTEXT_BUILT") => context = Join("\n", ClaimedParts)

\* every optional input of the context builder empty or absent
EmptySerper ==
    \/ SerperResults = <<>>
    \/ Get(SerperResults[1], "people_also_ask", <<>>) = <<>>

AllOptionalEmpty ==
    /\ secondary_keywords(Keywords) = <<>>
    /\ lsi_keywords(Keywords) = <<>>
    /\ ContentStrategy = EmptyDict
    /\ Get(CompetitorAnalysis, "common_topics", <<>>) = <<>>
    /\ EmptySerper
    /\ ContentGaps = <<>>

\* C10: with every optional input empty or absent, in any combination of the
\* two, the context builder returns, and what it returns is exactly the
\* primary-keyword line and the three strategy lines with their defaults.
C10_EmptyInputsGiveFourLines ==
    (pc # "START" /\ AllOptionalEmpty) =>
        /\ pc = "CONTEXT_BUILT"
        /\ context = "PRIMARY KEYWORD: " \o Str(primary_keyword(Keywords))
                     \o "\nCONTENT TYPE: guide\nSEARCH INTENT: informational"
                     \o "\nTARGET WORD COUNT: 2500"

\* C10's case: built from a search result that is there but holds no
\* question, the other optional inputs empty or absent
C10_Witness ==
    /\ pc = "CONTEXT_BUILT"
    /\ AllOptionalEmpty
    /\ SerperResults # <<>>
    /\ "competitor_analysis" \in DOMAIN state
    /\ context = "PRIMARY KEYWORD: seO tips\nCONTENT TYPE: guide"
                 \o "\nSEARCH INTENT: informational\nTARGET WORD COUNT: 2500"

\* a response text holding no JSON object at all
NoObject(text) == \A i \in 1..Len(text) : text[i].kind # "obj"

\* C11: for a KeywordSet with a primary keyword, in either shape, when the
\* fallback response text yields no decodable object the recovered result is
\* exactly the minimal synthetic brief (title "Complete Guide to X", one
\* section "introduction" of 300 words, empty faqs, gaps and links).
C11_NoObjectGivesMinimalBrief ==
    (pc \in {"RECOVERED", "DONE"} /\ ~PrimaryLacking
       /\ resp2.kind = "text" /\ NoObject(resp2.text)) =>
        outline = [kind |-> "dict", v |-> MinimalBriefFor(Keywords, ContentStrategy)]

\* C12: when the constrained call yields a valid ContentBrief, the run stores
\* that brief in state['outline'], sets the confidence to 0.9, appends
\* nothing to errors and issues no fallback request.
C12_ValidBriefStored ==
    (Returned /\ outline.kind = "ContentBrief") =>
        /\ resp1.kind = "text"
        /\ \E d \in ParserDecodes(resp1.text) :
              /\ d.kind = "return"
              /\ ContentBriefFieldsValid(d.value)
              /\ "outline" \in DOMAIN state
              /\ state["outline"] = BriefDict(d.value)
        /\ Confidence = HighConfidence
        /\ state["errors"] = state0["errors"]
        /\ requests = <<"constrained">>
        /\ resp2 = NoResponse

\* C12's case: a run that returned the two-section brief of the constrained
\* call, with an upstream error already logged
C12_Witness ==
    /\ Returned
    /\ outline.kind = "ContentBrief"
    /\ state0["errors"] # <<>>
    /\ Len(state["outline"]["sections"]) = 2
    /\ state["outline"]["sections"][2]["suggested_word_count"] = 2000

\* the slots of the state a run may write
OutputSlots == {"outline", "errors", "confidence_scores"}

\* C13: at every point of a run the upstream inputs held in the state are as
\* the caller passed them, no slot other than outline, errors and
\* confidence_scores['content_strategy'] has changed or appeared, and errors
\* still starts with the entries it had, in their order.
C13_InputsUntouchedErrorsAppendOnly ==
    /\ DOMAIN state0 \subseteq DOMAIN state
    /\ DOMAIN state \subseteq DOMAIN state0 \cup {"outline"}
    /\ \A k \in DOMAIN state0 \ OutputSlots : state[k] = state0[k]
    /\ Len(state["errors"]) >= Len(state0["errors"])
    /\ SubSeq(state["errors"], 1, Len(state0["errors"])) = state0["errors"]
    /\ DOMAIN state["confidence_scores"]
          \subseteq DOMAIN state0["confidence_scores"] \cup {"content_strategy"}
    /\ \A k \in DOMAIN state0["confidence_scores"] \ {"content_strategy"} :
          /\ k \in DOMAIN state["confidence_scores"]
          /\ state["confidence_scores"][k] = state0["confidence_scores"][k]

\* C13's case: a run that returned after appending to an errors list that
\* already held an entry, with a strategy and content gaps in the state
C13_Witness ==
    /\ Returned
    /\ state0["errors"] = <<"upstream error">>
    /\ state["errors"] = <<"upstream error", "Failed to generate content outline">>
    /\ "content_gaps" \in DOMAIN state
    /\ "content_strategy" \in DOMAIN state

\* the run went through the fallback (lines 131-144)
ThroughFallback == pc = "RECOVERED" \/ (pc = "DONE" /\ outline.kind # "ContentBrief")

\* C14 as stated, for a KeywordSet with a primary keyword: when the first
\* call failed on its response text, recovery
\* parses that same text and issues no further request; a second request is
\* issued only when the first request itself failed.
C14_ParseFailureReusesText ==
    (ThroughFallback /\ ~PrimaryLacking /\ resp1.kind = "text") =>
        /\ requests = <<"constrained">>
        /\ outline = fallback_result(resp1, Keywords, ContentStrategy)

\* C14 as amended: whatever made the first call fail, recovery issues exactly
\* one unconstrained request and its result comes from that second response
\* alone: None when the request fails, else the manual parse of its text.
C14_FallbackAlwaysRequestsAgain ==
    /\ (pc = "FALLBACK") => (requests = <<"constrained">> /\ resp2 = NoResponse)
    /\ ThroughFallback =>
          /\ requests = <<"constrained", "unconstrained">>
          /\ resp2 \in Responses
          /\ outline =
                IF resp2.kind = "failure" THEN None
                ELSE LET p == parse_outline_manually(resp2.text, Keywords, ContentStrategy)
                     IN  IF p.kind = "raise" THEN None ELSE p.value

\* C14's case: the first response held a brief that failed validation (a
\* section of 99 words), and the recovered outline is the object of the
\* second response
C14_Witness ==
    /\ pc = "RECOVERED"
    /\ resp1 = [kind |-> "text",
                text |-> <<Obj(LLMBrief("how_to", "informational", <<99>>, 7))>>]
    /\ resp2 = [kind |-> "text", text |-> <<Obj(GoodBrief)>>]
    /\ outline = [kind |-> "dict", v |-> GoodBrief]
    /\ requests = <<"constrained", "unconstrained">>

\* what C15 describes for a response text: the first JSON object of the text
\* when it validates as a brief (as decoded, or with the defaults filled),
\* the minimal synthetic brief otherwise
ClaimedExtraction(text, keywords, content_strategy) ==
    LET objs == {i \in 1..Len(text) : text[i].kind = "obj"}
    IN  IF objs = {} THEN {MinimalBrief(keywords, content_strategy)}
        ELSE LET first == CHOOSE i \in objs : \A j \in objs : i <= j
                 o == text[first].v
             IN  IF ContentBriefFieldsValid(o)
                 THEN {o, BriefDict(o)}
                 ELSE {MinimalBrief(keywords, content_strategy)}

\* C15: for a KeywordData with a primary keyword, the recovered result is the
\* first balanced brace-delimited object of the second response's text when
\* it decodes to a valid brief, whatever follows it in the text, and the
\* minimal synthetic brief when decoding or validation fails.
C15_FirstObjectOrMinimalBrief ==
    (ThroughFallback /\ ~PrimaryLacking /\ ~IsDict(Keywords) /\ resp2.kind = "text") =>
        /\ outline.kind = "dict"
        /\ outline.v \in ClaimedExtraction(resp2.text, Keywords, ContentStrategy)

\* C16: a run issues at most two inference requests: one constrained request,
\* then at most one unconstrained request, which follows a constrained call
\* that failed; nothing is requested before the context is built or after
\* the unconstrained request.
C16_AtMostTwoRequests ==
    /\ requests \in {<<>>, <<"constrained">>, <<"constrained", "unconstrained">>}
    /\ (pc \in {"START", "RAISED", "CONTEXT_BUILT"}) => requests = <<>>
    /\ (pc \in {"GENERATED", "FALLBACK"}) => requests = <<"constrained">>
    /\ Returned => Len(requests) >= 1
    /\ (Len(requests) = 2) =>
          /\ outline.kind # "ContentBrief"
          /\ \E res \in ChainOutcomes(resp1) : res.kind = "raise"

\* C16's case: a run that returned after both requests, the first having
\* met a response text and the second a transport failure
C16_Witness ==
    /\ Returned
    /\ requests = <<"constrained", "unconstrained">>
    /\ resp1.kind = "text"
    /\ resp2.kind = "failure"

\* the outline slot of a state, absent or holding a value
OutlineSlot(st) ==
    IF "outline" \in DOMAIN st THEN [present |-> TRUE, v |-> st["outline"]]
    ELSE [present |-> FALSE]

\* C17: given a primary keyword, every step of a run is a step of START -> CONTEXT_BUILT -> GENERATED
\* -> DONE or of START -> CONTEXT_BUILT -> FALLBACK -> DONE (the fallback
\* lasting from the caught failure until its result is stored), and
\* state['outline'] changes only on the step into DONE.
C17_OneOfTwoSequences ==
    [][~PrimaryLacking =>
         /\ (pc = "START") => (pc' = "CONTEXT_BUILT")
         /\ (pc = "CONTEXT_BUILT") => (pc' \in {"GENERATED", "FALLBACK"})
         /\ (pc = "GENERATED") => (pc' = "DONE")
         /\ (pc = "FALLBACK") => (pc' \in {"RECOVERED", "DONE"})
         /\ (pc = "RECOVERED") => (pc' = "DONE")
         /\ (OutlineSlot(state') # OutlineSlot(state)) => (pc' = "DONE")]_vars


\* the entries of a list at its first n positions, in the order of the list
FirstN(seq, n) == [i \in 1..(IF Len(seq) < n THEN Len(seq) ELSE n) |-> seq[i]]

\* the three bounded lines as C18 describes them
ClaimedTopicLine ==
    LET topics == Get(CompetitorAnalysis, "common_topics", <<>>)
    IN  IF topics = <<>> THEN <<>>
        ELSE <<"COMPETITOR TOPICS: " \o Join(", ", FirstN(topics, 10))>>

ClaimedPaaLine ==
    IF SerperResults = <<>> THEN <<>>
    ELSE LET paa == FirstN(Get(SerperResults[1], "people_also_ask", <<>>), 5)
         IN  IF paa = <<>> THEN <<>>
             ELSE <<"PEOPLE ALSO ASK: "
                    \o Join("; ", [i \in 1..Len(paa) |-> Get(paa[i], "question", "")])>>

ClaimedGapLine ==
    IF ContentGaps = <<>> THEN <<>>
    ELSE LET gaps == FirstN(ContentGaps, 3)
         IN  <<"CONTENT GAPS TO ADDRESS: "
               \o Join("; ", [i \in 1..Len(gaps) |-> Get(gaps[i].items, "topic", "")])>>

\* C18: the context carries at most the first 10 competitor topics, at most
\* the first 5 questions of the first search result and of no later one, and
\* at most the first 3 gap topics, each in input order; entries past these
\* bounds are not read, so a gap past the third cannot make the call raise.
C18_OptionalMaterialBounded ==
    /\ (pc = "CONTEXT_BUILT") =>
          context = Join("\n", KeywordLines(Keywords) \o StrategyLines(ContentStrategy)
                               \o ClaimedTopicLine \o ClaimedPaaLine \o ClaimedGapLine)
    /\ (pc = "RAISED") =>
          \E i \in 1..Len(FirstN(ContentGaps, 3)) : ContentGaps[i].shape = "obj"

\* C18's case: built from more topics, questions and gaps than the bounds,
\* with a second search result that holds a question of its own
C18_Witness ==
    /\ pc = "CONTEXT_BUILT"
    /\ Len(Get(CompetitorAnalysis, "common_topics", <<>>)) > 10
    /\ Len(SerperResults) = 2
    /\ Len(Get(SerperResults[1], "people_also_ask", <<>>)) > 5
    /\ Get(SerperResults[2], "people_also_ask", <<>>) # <<>>
    /\ Len(ContentGaps) > 3


\* C19: built from a typed keyword object whose longtail list is non-empty,
\* the context carries a comma-joined LONGTAIL KEYWORDS line right after the
\* LSI line; built from a mapping it is the lines without a longtail line.
C19_TypedLongtailEmitted ==
    (pc = "CONTEXT_BUILT") =>
        LET head == <<"PRIMARY KEYWORD: " \o Str(primary_keyword(Keywords))>>
                    \o (IF TruthySeq(secondary_keywords(Keywords))
                        THEN <<"SECONDARY KEYWORDS: " \o Join(", ", secondary_keywords(Keywords))>>
                        ELSE <<>>)
                    \o (IF TruthySeq(lsi_keywords(Keywords))
                        THEN <<"LSI KEYWORDS: " \o Join(", ", lsi_keywords(Keywords))>>
                        ELSE <<>>)
            tail == StrategyLines(ContentStrategy) \o CompetitorLines(CompetitorAnalysis)
                    \o PaaLines(SerperResults) \o GapLines(ContentGaps)
        IN  IF ~IsDict(Keywords) /\ Keywords.longtail # <<>>
            THEN context = Join("\n", head \o <<"LONGTAIL KEYWORDS: " \o Join(", ", Keywords.longtail)>>
                                      \o tail)
            ELSE context = Join("\n", head \o tail)


\* the two outcomes of a run that returns
HighOutcome ==
    /\ Confidence = HighConfidence
    /\ "outline" \in DOMAIN state
    /\ state["outline"] = StoredOutline(outline)
    /\ state["errors"] = state0["errors"]

LowOutcome ==
    /\ Confidence = LowConfidence
    /\ Len(state["errors"]) = Len(state0["errors"]) + 1
    /\ SubSeq(state["errors"], 1, Len(state0["errors"])) = state0["errors"]
    /\ OutlineSlot(state) = OutlineSlot(state0)

\* C20: a run that returned ends in exactly one of two outcomes: confidence
\* 0.9 with the outline written and errors as before, or confidence 0.3 with
\* exactly one entry appended to errors and the outline slot as before the
\* run; the confidence is never anything else.
C20_ExactlyOneOutcome ==
    Returned =>
        /\ Confidence \in {HighConfidence, LowConfidence}
        /\ (HighOutcome /\ ~LowOutcome) \/ (LowOutcome /\ ~HighOutcome)
        /\ Truthy(outline) <=> HighOutcome

\* C20's case: a failed run over a state that already held an outline and an
\* upstream error
C20_Witness ==
    /\ Returned
    /\ LowOutcome
    /\ "outline" \in DOMAIN state0
    /\ state0["errors"] # <<>>
    /\ state["errors"][Len(state["errors"])] = "Failed to generate content outline"

====
